---- MODULE Spec2Model ----
(***************************************************************************)
(* Model of the real-time streaming session of the MAVU backend:           *)
(*   backend/realtime/websocket_handler.py  (RealtimeStreamHandler)        *)
(*   backend/realtime/openai_client.py      (OpenAIRealtimeClient)         *)
(*   backend/utils/text_filter.py           (is_meaningful_text, ...)      *)
(*                                                                         *)
(* One session is modelled.  Its asyncio tasks are                         *)
(*   - the main task: start() -> _handle_messages() -> cleanup(), whose    *)
(*     position is pc;                                                     *)
(*   - the upstream receive task (_message_handler), which runs the        *)
(*     on_* callbacks one at a time while `receiving` holds;               *)
(*   - the context-update tasks made by user transcripts                   *)
(*     (_update_context_async), kept in context_tasks until they run.      *)
(* A task switch can happen only at an await; the actions below are the    *)
(* stretches of code between the awaits at which another task can          *)
(* change what the stretch reads or writes.                                *)
(*                                                                         *)
(* Six specifications share the actions:                                   *)
(*   Spec       the session from construction to the end of cleanup;       *)
(*   SpecAudio  a started session: audio messages against upstream events; *)
(*   SpecTurn   a started session: transcripts and response completion,    *)
(*              over every transcript of up to MaxTextLen characters;      *)
(*   SpecVoice  a started session: voice changes, text inputs and context  *)
(*              updates;                                                   *)
(*   SpecGuard  a started session: every client message handler against    *)
(*              the end of the upstream link;                              *)
(*   SpecQueue  the start of a session with messages produced for the      *)
(*              client around the handshake.                               *)
(***************************************************************************)
EXTENDS Integers, Sequences, FiniteSets, TLC

\* ------------------------------------------------------------------ bounds
MaxChunks == 2          \* audio.append messages recorded between two resets
MaxTextLen == 3         \* characters of a transcript
MaxDeltas == 2          \* assistant transcript deltas accumulated in a turn
MaxCleanups == 2        \* invocations of cleanup() for one session
MaxTasks == 1           \* context-update tasks that have not finished

\* ------------------------------------------------------- program constants
min_buffer_duration_ms == 100
sample_rate == 24000
max_queue_size == 10
max_latency_samples == 10
min_grace_ms == 150
max_grace_ms == 500
default_grace_ms == 200

\* chunk sizes (bytes) a client sends: an empty payload after decoding, and
\* 256 and 4544 bytes (94.67 ms), which together are exactly 100 ms
ChunkSizes == {0, 256, 4544}

\* characters of a transcript: the filler letter, another letter, a
\* punctuation mark, an emoji (category So), a space
Alphabet == {"a", "b", ".", "E", " "}

RECURSIVE SeqsUpTo(_, _)
SeqsUpTo(S, n) ==
    IF n = 0 THEN {<<>>}
    ELSE LET shorter == SeqsUpTo(S, n - 1)
         IN  shorter \cup {Append(t, c) : t \in {u \in shorter : Len(u) = n - 1}, c \in S}

Texts == SeqsUpTo(Alphabet, MaxTextLen)

\* the transcript used where the audio path is explored: a meaningful text
SampleTexts == {<<"a", "b">>}

\* ------------------------------------------------- binary64 arithmetic
\* The handler keeps audio_buffer_duration_ms as a Python float.  A float v
\* is held here exactly, as [n48 |-> B, err |-> E] with
\*     v = B/48 + E * 2^-62 / 375   (milliseconds),
\* B being the bytes the value stands for and E the rounding error so far.
RECURSIVE Pow2(_)
Pow2(k) == IF k = 0 THEN 1 ELSE 2 * Pow2(k - 1)

RECURSIVE Pow2Mod(_, _)
Pow2Mod(k, m) == IF k = 0 THEN 1 % m ELSE (2 * Pow2Mod(k - 1, m)) % m

\* 2^f <= B/48 + E*u
AtLeastPow2(B, E, f) ==
    IF f >= 0
    THEN B > 48 * Pow2(f) \/ (B = 48 * Pow2(f) /\ E >= 0)
    ELSE B * Pow2(-f) > 48 \/ (B * Pow2(-f) = 48 /\ E >= 0)

\* the binary exponent f of the value: 2^f <= v < 2^(f+1)
Binade(B, E) == CHOOSE f \in -6..8 : AtLeastPow2(B, E, f) /\ ~AtLeastPow2(B, E, f + 1)

\* (B * 125 * 2^58) mod (375 * 2^j): the exact part B/48 in units of u,
\* reduced modulo one ulp (j = f + 10)
BigMod(B, j) == 125 * Pow2(j) * (((B % 3) * Pow2Mod(58 - j, 3)) % 3)

\* IEEE-754 round-to-nearest, ties-to-even, of B/48 + E*u
RoundNearestEven(B, E) ==
    IF B = 0 /\ E = 0 THEN [n48 |-> 0, err |-> 0]
    ELSE
    LET j    == Binade(B, E) + 10
        U    == 375 * Pow2(j)
        r    == (BigMod(B, j) + E) % U
        dn   == E - r
        up   == E - r + U
        qodd == ((BigMod(B, j + 1) + dn) % (2 * U)) = U
    IN  IF 2 * r < U THEN [n48 |-> B, err |-> dn]
        ELSE IF 2 * r > U THEN [n48 |-> B, err |-> up]
        ELSE IF qodd THEN [n48 |-> B, err |-> up] ELSE [n48 |-> B, err |-> dn]

\* x = (chunk_size / 2) / sample_rate: binary exponent of x, and the error of
\* the rounded quotient against n/48000 in units of ulp(x)/375
DivExp(n) == CHOOSE e \in -10..-3 :
                 n * Pow2(-e) >= 2 * sample_rate /\ n * Pow2(-e) < 4 * sample_rate
DivErr(n) ==
    LET r == ((n % 375) * Pow2Mod(45 - DivExp(n), 375)) % 375
    IN  IF 2 * r < 375 THEN -r ELSE 375 - r

\* chunk_duration_ms = (chunk_size / 2) / self.sample_rate * 1000
ChunkDuration(n) ==
    IF n = 0 THEN [n48 |-> 0, err |-> 0]
    ELSE RoundNearestEven(n, 1000 * DivErr(n) * Pow2(DivExp(n) + 10))

\* self.audio_buffer_duration_ms += chunk_duration_ms
FloatAdd(a, b) == RoundNearestEven(a.n48 + b.n48, a.err + b.err)

ZeroMs == [n48 |-> 0, err |-> 0]

\* self.audio_buffer_duration_ms < self.min_buffer_duration_ms
BelowMinimum(d) ==
    \/ d.n48 < 48 * min_buffer_duration_ms
    \/ d.n48 = 48 * min_buffer_duration_ms /\ d.err < 0

\* ------------------------------------------------------------ text filter
IsEmoji(c) == c = "E"
IsSpace(c) == c = " "
IsAlnum(c) == c \in {"a", "b"}

RemoveEmojis(t) == SelectSeq(t, LAMBDA c : ~IsEmoji(c))

RECURSIVE LStrip(_)
LStrip(t) == IF t # <<>> /\ IsSpace(Head(t)) THEN LStrip(Tail(t)) ELSE t

RECURSIVE RStrip(_)
RStrip(t) ==
    IF t # <<>> /\ IsSpace(t[Len(t)]) THEN RStrip(SubSeq(t, 1, Len(t) - 1)) ELSE t

Strip(t) == RStrip(LStrip(t))

\* re.match(r'^[aа]{3,}$', s) and the other filler patterns: one filler
\* letter repeated three times or more
IsFiller(t) == Len(t) >= 3 /\ \A i \in 1..Len(t) : t[i] = "a"

\* re.match(r'^[.,!?;:\-\s]+$', s)
IsOnlyPunctuation(t) == t # <<>> /\ \A i \in 1..Len(t) : t[i] \in {".", " "}

\* the predicate without its filler patterns
is_meaningful_text_NoFiller(t) ==
    IF t = <<>> \/ Strip(t) = <<>> THEN FALSE
    ELSE LET cleaned == Strip(RemoveEmojis(t))
             letters == SelectSeq(cleaned, LAMBDA c : ~IsSpace(c))
         IN  IF Len(cleaned) < 2 THEN FALSE
             ELSE IF \A i \in 1..Len(letters) : ~IsAlnum(letters[i]) THEN FALSE
             ELSE IF IsOnlyPunctuation(cleaned) THEN FALSE
             ELSE TRUE

is_meaningful_text(t) ==
    IF t = <<>> \/ Strip(t) = <<>> THEN FALSE
    ELSE LET cleaned == Strip(RemoveEmojis(t))
             letters == SelectSeq(cleaned, LAMBDA c : ~IsSpace(c))
         IN  IF Len(cleaned) < 2 THEN FALSE
             ELSE IF \A i \in 1..Len(letters) : ~IsAlnum(letters[i]) THEN FALSE
             ELSE IF IsOnlyPunctuation(cleaned) \/ IsFiller(cleaned) THEN FALSE
             ELSE TRUE

\* ' '.join(cleaned.split()): runs of spaces become one, the ends are trimmed
RECURSIVE SquashSpaces(_)
SquashSpaces(t) ==
    IF Len(t) < 2 THEN t
    ELSE IF IsSpace(t[1]) /\ IsSpace(t[2]) THEN SquashSpaces(Tail(t))
    ELSE <<Head(t)>> \o SquashSpaces(Tail(t))

clean_chat_message(t) ==
    IF t = <<>> THEN <<>>
    ELSE IF ~is_meaningful_text(t) THEN <<>>
    ELSE Strip(SquashSpaces(RemoveEmojis(t)))

\* ------------------------------------------------------------------ state
VARIABLES
    \* RealtimeStreamHandler fields
    is_active, ws_connected, ws_ready, message_queue,
    current_user_message, current_assistant_response, db_user_id,
    audio_buffer_size, audio_buffer_duration_ms, audio_chunk_count,
    welcome_triggered,
    openai_client,      \* "None" or "client": the handler's reference
    \* OpenAIRealtimeClient fields
    is_connected,       \* client.is_connected
    ws,                 \* client.ws: "None", "open", or closed by the peer:
                        \* "closed_ok" (close code 1000/1001), "closed_error"
    receiving,          \* the _message_handler task is iterating the socket
    upstream_commit,    \* the upstream holds a commit event it has not answered
    \* the session's collaborators
    db,                 \* a database handle was passed to the handler
    user_id_valid,      \* int(self.user_id) succeeds
    clientUp,           \* websocket.client_state is CONNECTED and sends succeed
    \* control
    pc,                 \* position of the main task
    \* observations
    out,                \* messages written to the client socket by the last step
    last,               \* what the last step did
    commit,             \* the audio.commit being handled or last handled
    greeting,           \* the greeting create_response calls of the session
    session_ready_sent, \* session.ready was passed to _send_to_client
    messages_read,      \* a client message was read by the receive loop
    \* voice and context
    user_voice,         \* self.user_voice
    upstream_voice,     \* the voice of the last session.update the upstream got
    context_tasks,      \* the _update_context_async tasks that have not finished
    teardown,           \* the link's creation and the cleanup calls so far
    \* arrival times and the grace period
    chunk_receive_times,    \* self.chunk_receive_times, in milliseconds
    last_audio_chunk_time,  \* self.last_audio_chunk_time: "None" or "set"
    grace_period_s,         \* the grace period last computed, a fraction of ms
    \* instructions
    session_instructions,   \* self.openai_client.session.instructions: built at
                            \* startup, "onboarding" with the onboarding section
                            \* and "plain" without it
    upstream_instructions   \* the instructions of the last session.update sent

handlerVars == <<is_active, ws_connected, ws_ready, message_queue, welcome_triggered>>
turnVars    == <<current_user_message, current_assistant_response, db_user_id>>
bufferVars  == <<audio_buffer_size, audio_buffer_duration_ms, audio_chunk_count>>
linkVars    == <<openai_client, is_connected, ws, receiving, upstream_commit>>
envVars     == <<db, user_id_valid, clientUp>>
obsVars     == <<out, last, commit, greeting, session_ready_sent, messages_read>>
voiceVars   == <<user_voice, upstream_voice>>
timingVars  == <<chunk_receive_times, last_audio_chunk_time, grace_period_s>>
instructionVars == <<session_instructions, upstream_instructions>>

vars == <<handlerVars, turnVars, bufferVars, linkVars, envVars, pc, obsVars,
          voiceVars, context_tasks, teardown, timingVars, instructionVars>>

\* ---------------------------------------------------------- client socket
Msg(type, status) == [type |-> type, status |-> status]

\* _send_to_client, on the socket state s = [conn, ready, queue, out]
SendToClient(s, m) ==
    IF ~s.conn THEN s
    ELSE IF ~s.ready
         THEN IF Len(s.queue) < max_queue_size
              THEN [s EXCEPT !.queue = Append(@, m)]
              ELSE s
    ELSE IF clientUp THEN [s EXCEPT !.out = Append(@, m)]
    ELSE [s EXCEPT !.conn = FALSE, !.ready = FALSE]

RECURSIVE SendAll(_, _)
SendAll(s, ms) == IF ms = <<>> THEN s ELSE SendAll(SendToClient(s, Head(ms)), Tail(ms))

Socket == [conn |-> ws_connected, ready |-> ws_ready, queue |-> message_queue, out |-> <<>>]

\* the socket fields after the step's sends
SocketBecomes(s) ==
    /\ ws_connected' = s.conn
    /\ ws_ready' = s.ready
    /\ message_queue' = s.queue
    /\ out' = s.out

Count(ms, m) == Cardinality({i \in 1..Len(ms) : ms[i] = m})
CountType(ms, type) == Cardinality({i \in 1..Len(ms) : ms[i].type = type})

NoCommit == [phase |-> "idle", outcome |-> "none", dones |-> 0, errors |-> 0, calls |-> 0,
             waited |-> FALSE, chunks |-> 0, bytes |-> 0, enough |-> FALSE]
NoGrace == [num |-> 0, den |-> 1]
NoTeardown == [created |-> FALSE, cleanups |-> 0, disconnects |-> 0, closes |-> 0]
NoGreeting == [checked |-> FALSE, eligible |-> FALSE, delayed |-> FALSE,
               connected |-> FALSE, calls |-> 0, after_ready |-> FALSE,
               before_read |-> FALSE]

\* ------------------------------------------------------------------- Init
Init ==
    /\ is_active = FALSE
    /\ ws_connected = FALSE
    /\ ws_ready = FALSE
    /\ message_queue = <<>>
    /\ current_user_message = <<>>
    /\ current_assistant_response = <<>>
    /\ db_user_id = "None"
    /\ audio_buffer_size = 0
    /\ audio_buffer_duration_ms = ZeroMs
    /\ audio_chunk_count = 0
    /\ welcome_triggered = FALSE
    /\ openai_client = "None"
    /\ is_connected = FALSE
    /\ ws = "None"
    /\ receiving = FALSE
    /\ upstream_commit = FALSE
    /\ db \in BOOLEAN
    /\ user_id_valid \in BOOLEAN
    /\ clientUp = TRUE
    /\ pc = "start"
    /\ out = <<>>
    /\ last = [name |-> "init"]
    /\ commit = NoCommit
    /\ greeting = NoGreeting
    /\ session_ready_sent = FALSE
    /\ messages_read = FALSE
    /\ user_voice = "shimmer"
    /\ upstream_voice = "None"
    /\ context_tasks = <<>>
    /\ teardown = NoTeardown
    /\ chunk_receive_times = <<>>
    /\ last_audio_chunk_time = "None"
    /\ grace_period_s = NoGrace
    /\ session_instructions = "None"
    /\ upstream_instructions = "None"

\* ----------------------------------------------------------- upstream link
\* OpenAIRealtimeClient._send_event: "dropped" (logged, returns), "sent", or
\* "raised" (self.ws.send on a socket the peer has closed)
SendEvent ==
    IF ws = "None" \/ ~is_connected THEN "dropped"
    ELSE IF ws = "open" THEN "sent"
    ELSE "raised"

\* the guard every handler starts with:
\* not self.openai_client or not self.openai_client.is_connected
LinkDown == openai_client = "None" \/ ~is_connected

\* config.SKINS: the voice of each character skin
SKINS ==
    [id \in 1..10 |->
        CASE id = 1 -> "echo"   [] id = 2 -> "shimmer" [] id = 3 -> "alloy"
          [] id = 4 -> "ash"    [] id = 5 -> "ballad"  [] id = 6 -> "coral"
          [] id = 7 -> "sage"   [] id = 8 -> "verse"   [] id = 9 -> "marin"
          [] id = 10 -> "cedar"]

\* the skin stored for the user; 0 stands for no row or no skin
StoredSkins == {0, 1}

\* _load_user_voice: the stored skin's voice, the default voice otherwise
load_user_voice(skin) ==
    IF db /\ user_id_valid /\ skin \in DOMAIN SKINS THEN SKINS[skin] ELSE user_voice

\* -------------------------------------------------------------- start()
\* start(): websocket.accept() and ws_connected = True; the readiness poll
\* follows
StartAccept ==
    /\ pc = "start"
    /\ IF ~clientUp
       THEN \* accept() raises: the except clauses of start(), then finally
            /\ pc' = "cleanup"
            /\ ws_connected' = FALSE
            /\ last' = [name |-> "accept_fail"]
       ELSE /\ pc' = "handshake"
            /\ ws_connected' = TRUE
            /\ last' = [name |-> "accept"]
    /\ out' = <<>>
    /\ UNCHANGED <<is_active, ws_ready, message_queue, welcome_triggered, turnVars,
                   bufferVars, linkVars, envVars, commit, greeting,
                   session_ready_sent, messages_read>>
    /\ UNCHANGED <<voiceVars, context_tasks, teardown>>
    /\ UNCHANGED <<timingVars, instructionVars>>

\* _send_to_client(message) called by a coroutine of the session while
\* start() is between accept() and the connect call
QueueMessages == {Msg("note", "x"), Msg("note", "y")}
ProduceMessage(message) ==
    /\ pc \in {"handshake", "connect"}
    /\ SocketBecomes(SendToClient(Socket, message))
    /\ last' = [name |-> "send", message |-> message, ready |-> ws_ready]
    /\ UNCHANGED <<is_active, welcome_triggered, turnVars, bufferVars, linkVars,
                   envVars, pc, commit, greeting, session_ready_sent, messages_read>>
    /\ UNCHANGED <<voiceVars, context_tasks, teardown>>
    /\ UNCHANGED <<timingVars, instructionVars>>

\* a flush that leaves the sent messages in the queue
flush_message_queue_Keeps(s) ==
    [s EXCEPT !.out = IF clientUp THEN s.queue ELSE <<>>]

\* _flush_message_queue: every queued message is sent in order, a failed
\* send is logged and skipped, then the queue is cleared
flush_message_queue(s) ==
    [s EXCEPT !.out = IF clientUp THEN s.queue ELSE <<>>, !.queue = <<>>]

\* start(), from the end of the readiness poll to the connect call: ws_ready,
\* the queue flush, session.connecting, client construction,
\* _prepare_system_instructions, _load_user_voice
HandshakeReady ==
    /\ pc = "handshake"
    /\ LET s == SendToClient(flush_message_queue([Socket EXCEPT !.ready = TRUE]),
                             Msg("session.connecting", "initializing"))
       IN  SocketBecomes(s)
    /\ openai_client' = "client"
    /\ teardown' = [teardown EXCEPT !.created = TRUE]
    /\ \E skin \in StoredSkins : user_voice' = load_user_voice(skin)
    /\ pc' = "connect"
    /\ last' = [name |-> "handshake_ready", queued |-> Len(message_queue)]
    /\ UNCHANGED <<is_active, welcome_triggered, turnVars, bufferVars,
                   is_connected, ws, receiving, upstream_commit, envVars,
                   commit, greeting, session_ready_sent, messages_read>>
    /\ UNCHANGED <<upstream_voice, context_tasks>>
    \* _prepare_system_instructions: the onboarding section is added unless
    \* the profile read has a name and an age; a timeout gives the default text
    /\ session_instructions' \in {"onboarding", "plain"}
    /\ UNCHANGED <<timingVars, upstream_instructions>>

\* asyncio.wait_for(self.openai_client.connect(session_config), 15.0)
\* returns: the link is open, its receive task runs, the session is marked
\* active and session.ready is sent
ConnectSucceed ==
    /\ pc = "connect"
    /\ is_connected' = TRUE
    /\ ws' = "open"
    /\ receiving' = TRUE
    /\ is_active' = TRUE
    /\ SocketBecomes(SendToClient(Socket, Msg("session.ready", "ready")))
    /\ session_ready_sent' = TRUE
    /\ pc' = "welcome_check"
    /\ last' = [name |-> "connect_ok"]
    \* _configure_session: the session.update of connect() carries the voice
    /\ upstream_voice' = user_voice
    /\ UNCHANGED <<welcome_triggered, turnVars, bufferVars, openai_client,
                   upstream_commit, envVars, commit, greeting, messages_read>>
    /\ UNCHANGED <<user_voice, context_tasks, teardown>>
    \* _configure_session sends self.session.instructions
    /\ upstream_instructions' = session_instructions
    /\ UNCHANGED <<timingVars, session_instructions>>

\* the connect times out or raises.  kind is the exception that leaves the
\* inner try: "timeout" (re-raised as Exception), "runtime" (a RuntimeError),
\* "other".  opened: websockets.connect had returned before the failure, so
\* the client holds an open socket and its receive task runs.
ConnectFailKinds == {"timeout", "runtime", "other"}

\* a connect failure that is not reported to the client
ConnectFail_Silent(kind, opened) ==
    /\ pc = "connect"
    /\ IF opened
       THEN is_connected' = TRUE /\ ws' = "open" /\ receiving' = TRUE
       ELSE UNCHANGED <<is_connected, ws, receiving>>
    /\ LET s1 == [Socket EXCEPT !.out = <<>>]
       IN  /\ SocketBecomes([s1 EXCEPT !.conn = FALSE])
           /\ last' = [name |-> "connect_fail", kind |-> kind,
                       client_ok |-> ws_connected /\ ws_ready /\ clientUp]
    /\ pc' = "cleanup"
    /\ UNCHANGED <<is_active, welcome_triggered, turnVars, bufferVars,
                   openai_client, upstream_commit, envVars, commit, greeting,
                   session_ready_sent, messages_read>>
    /\ UNCHANGED <<voiceVars, context_tasks, teardown>>
    /\ UNCHANGED <<timingVars, instructionVars>>

ConnectFail(kind, opened) ==
    /\ pc = "connect"
    /\ IF opened
       THEN is_connected' = TRUE /\ ws' = "open" /\ receiving' = TRUE
       ELSE UNCHANGED <<is_connected, ws, receiving>>
    /\ LET s1 == SendToClient(Socket, Msg("error", "connect"))
           \* except Exception: if self.ws_connected: _send_error_to_client
           s2 == IF kind # "runtime" /\ s1.conn
                 THEN SendToClient(s1, Msg("error", "session"))
                 ELSE s1
       IN  /\ SocketBecomes([s2 EXCEPT !.conn = FALSE])
           /\ last' = [name |-> "connect_fail", kind |-> kind,
                       client_ok |-> ws_connected /\ ws_ready /\ clientUp]
    /\ pc' = "cleanup"
    /\ UNCHANGED <<is_active, welcome_triggered, turnVars, bufferVars,
                   openai_client, upstream_commit, envVars, commit, greeting,
                   session_ready_sent, messages_read>>
    /\ UNCHANGED <<voiceVars, context_tasks, teardown>>
    /\ UNCHANGED <<timingVars, instructionVars>>

\* the guest check of start(): the user row is read when a database handle
\* exists.  query is what self.db.query(User)...first() does: it raises,
\* finds no row, or finds a row with name / age / gender set or None.
NoProfile == [name |-> FALSE, age |-> FALSE, gender |-> FALSE]
Profiles == [name : BOOLEAN, age : BOOLEAN, gender : BOOLEAN]
QueryResults == {[row |-> "raises", user |-> NoProfile], [row |-> "missing", user |-> NoProfile]}
                \cup {[row |-> "found", user |-> u] : u \in Profiles}

\* a guest test that looks at the name only
is_guest_NameOnly(user) == ~user.name

\* User.is_guest
is_guest(user) == ~user.name /\ ~user.age /\ ~user.gender

WelcomeCheck(query) ==
    /\ pc = "welcome_check"
    /\ LET found == db /\ user_id_valid /\ query.row = "found"
           trigger == found /\ is_guest(query.user) /\ ~welcome_triggered
       IN  /\ welcome_triggered' = (welcome_triggered \/ trigger)
           /\ pc' = IF trigger THEN "welcome_delay" ELSE "loop"
           /\ greeting' = [greeting EXCEPT
                             !.checked = TRUE,
                             !.eligible = db /\ user_id_valid /\ query.row = "found"
                                          /\ query.user = NoProfile,
                             !.delayed = trigger]
    /\ out' = <<>>
    /\ last' = [name |-> "welcome_check"]
    /\ UNCHANGED <<is_active, ws_connected, ws_ready, message_queue, turnVars,
                   bufferVars, linkVars, envVars, commit, session_ready_sent,
                   messages_read>>
    /\ UNCHANGED <<voiceVars, context_tasks, teardown>>
    /\ UNCHANGED <<timingVars, instructionVars>>

\* after asyncio.sleep(1.0): the connectivity check, audio.preparing and
\* create_response(modalities=["text", "audio"])
WelcomeTrigger ==
    /\ pc = "welcome_delay"
    /\ IF LinkDown
       THEN /\ out' = <<>>
            /\ greeting' = [greeting EXCEPT !.connected = FALSE]
            /\ UNCHANGED <<ws_connected, ws_ready, message_queue>>
       ELSE /\ SocketBecomes(SendToClient(Socket, Msg("audio.preparing", "")))
            /\ greeting' = [greeting EXCEPT
                              !.connected = TRUE,
                              !.calls = @ + 1,
                              !.after_ready = session_ready_sent,
                              !.before_read = ~messages_read]
    /\ pc' = "loop"
    /\ last' = [name |-> "welcome_trigger", event |-> IF LinkDown THEN "none" ELSE SendEvent]
    /\ UNCHANGED <<is_active, welcome_triggered, turnVars, bufferVars, linkVars,
                   envVars, commit, session_ready_sent, messages_read>>
    /\ UNCHANGED <<voiceVars, context_tasks, teardown>>
    /\ UNCHANGED <<timingVars, instructionVars>>

\* a cleanup that keeps its reference to the client
ReleasedClient_Kept == openai_client

\* self.openai_client = None, after disconnect() returned
ReleasedClient == "None"

\* the calls cleanup() makes: disconnect() when it holds a client, and in it
\* ws.close() when the link holds a transport
Disconnected ==
    [teardown EXCEPT
        !.cleanups = @ + 1,
        !.disconnects = IF openai_client # "None" THEN @ + 1 ELSE @,
        !.closes = IF openai_client # "None" /\ ws # "None" THEN @ + 1 ELSE @]

\* a cleanup that also clears the welcome flag
Cleanup_ResetsWelcome ==
    /\ pc = "cleanup"
    /\ is_active' = FALSE
    /\ LET s == IF ws_connected
                THEN SendToClient(Socket, Msg("session.metrics", ""))
                ELSE [Socket EXCEPT !.out = <<>>]
       IN  SocketBecomes([s EXCEPT !.conn = FALSE])
    \* OpenAIRealtimeClient.disconnect
    /\ IF openai_client # "None" /\ ws # "None"
       THEN ws' = "None" /\ is_connected' = FALSE
       ELSE UNCHANGED <<ws, is_connected>>
    /\ receiving' = FALSE
    /\ upstream_commit' = FALSE
    /\ openai_client' = (IF openai_client # "None" THEN ReleasedClient ELSE "None")
    /\ teardown' = Disconnected
    /\ audio_buffer_size' = 0
    /\ audio_buffer_duration_ms' = ZeroMs
    /\ audio_chunk_count' = 0
    /\ welcome_triggered' = FALSE
    /\ pc' = "done"
    /\ last' = [name |-> "cleanup", again |-> FALSE]
    /\ UNCHANGED <<turnVars, envVars, commit, greeting,
                   session_ready_sent, messages_read>>
    /\ UNCHANGED <<voiceVars, context_tasks>>
    /\ last_audio_chunk_time' = "None"
    /\ UNCHANGED <<chunk_receive_times, grace_period_s, instructionVars>>

\* cleanup(), entered from the finally clause of start()
cleanup(from) ==
    /\ pc = from
    /\ is_active' = FALSE
    /\ LET s == IF ws_connected
                THEN SendToClient(Socket, Msg("session.metrics", ""))
                ELSE [Socket EXCEPT !.out = <<>>]
       IN  SocketBecomes([s EXCEPT !.conn = FALSE])
    \* OpenAIRealtimeClient.disconnect
    /\ IF openai_client # "None" /\ ws # "None"
       THEN ws' = "None" /\ is_connected' = FALSE
       ELSE UNCHANGED <<ws, is_connected>>
    /\ receiving' = FALSE
    /\ upstream_commit' = FALSE
    /\ openai_client' = (IF openai_client # "None" THEN ReleasedClient ELSE "None")
    /\ teardown' = Disconnected
    /\ audio_buffer_size' = 0
    /\ audio_buffer_duration_ms' = ZeroMs
    /\ audio_chunk_count' = 0
    /\ pc' = "done"
    /\ last' = [name |-> "cleanup", again |-> from = "done"]
    /\ UNCHANGED <<welcome_triggered, turnVars, envVars, commit, greeting,
                   session_ready_sent, messages_read>>
    /\ UNCHANGED <<voiceVars, context_tasks>>
    /\ last_audio_chunk_time' = "None"
    /\ UNCHANGED <<chunk_receive_times, grace_period_s, instructionVars>>

\* cleanup(), entered from the finally clause of start()
Cleanup == cleanup("cleanup")

\* cleanup(), called again for the same handler by an except clause of the
\* router after start() has ended
CleanupAgain ==
    /\ teardown.cleanups < MaxCleanups
    /\ cleanup("done")

\* the client goes away: client_state leaves CONNECTED, sends fail, the
\* pending receive_text raises WebSocketDisconnect
ClientDrop ==
    /\ clientUp
    /\ pc # "done"
    /\ clientUp' = FALSE
    /\ out' = <<>>
    /\ last' = [name |-> "client_drop"]
    /\ UNCHANGED <<handlerVars, turnVars, bufferVars, linkVars, db, user_id_valid,
                   pc, commit, greeting, session_ready_sent, messages_read>>
    /\ UNCHANGED <<voiceVars, context_tasks, teardown>>
    /\ UNCHANGED <<timingVars, instructionVars>>

\* ------------------------------------------------- client message handlers
\* the receive loop reads a message only while the client is there; a
\* handler runs to its end before the next message is read
Reading == pc = "loop" /\ is_active /\ clientUp

\* a reset that forgets the chunk counter
ResetBuffer_KeepsCount ==
    /\ audio_buffer_size' = 0
    /\ audio_buffer_duration_ms' = ZeroMs
    /\ audio_chunk_count' = audio_chunk_count

\* the three counters of the pending buffer, cleared together
ResetBuffer ==
    /\ audio_buffer_size' = 0
    /\ audio_buffer_duration_ms' = ZeroMs
    /\ audio_chunk_count' = 0

\* intervals (ms) between the arrivals of two chunks: a burst, a steady
\* stream whose doubled average lies inside the clamp, and a stall
Intervals == {0, 120, 1000}

RECURSIVE SumOf(_)
SumOf(times) == IF times = <<>> THEN 0 ELSE Head(times) + SumOf(Tail(times))

RECURSIVE MaxOf(_)
MaxOf(times) ==
    IF Len(times) = 1 THEN Head(times)
    ELSE LET m == MaxOf(Tail(times)) IN IF Head(times) >= m THEN Head(times) ELSE m

\* the arrival bookkeeping of _handle_audio_input: the interval since the
\* previous chunk is appended, and the oldest sample dropped once the
\* window holds more than max_latency_samples
record_interval(times, interval) ==
    LET appended == Append(times, interval)
    IN  IF Len(appended) > max_latency_samples THEN Tail(appended) ELSE appended

\* max(avg_interval * 2, max_interval), in ms, as the exact fraction num/den
adaptive_interval(times) ==
    IF 2 * SumOf(times) >= MaxOf(times) * Len(times)
    THEN [num |-> 2 * SumOf(times), den |-> Len(times)]
    ELSE [num |-> MaxOf(times), den |-> 1]

\* the grace period without the upper clamp
grace_period_Unclamped(times) ==
    IF times # <<>>
    THEN LET raw == adaptive_interval(times)
         IN  IF raw.num < min_grace_ms * raw.den
             THEN [num |-> min_grace_ms, den |-> 1] ELSE raw
    ELSE [num |-> default_grace_ms, den |-> 1]

\* the grace period of _handle_audio_commit, in ms as the fraction num/den:
\* max(0.15, min(0.5, max(avg_interval * 2, max_interval))), or 0.2 s when
\* no interval has been recorded
grace_period(times) ==
    IF times # <<>>
    THEN LET raw == adaptive_interval(times)
             capped == IF raw.num > max_grace_ms * raw.den
                       THEN [num |-> max_grace_ms, den |-> 1] ELSE raw
         IN  IF capped.num < min_grace_ms * capped.den
             THEN [num |-> min_grace_ms, den |-> 1] ELSE capped
    ELSE [num |-> default_grace_ms, den |-> 1]

\* the arrival bookkeeping of _handle_audio_input for one decoded chunk.
\* The clock is read only here and the intervals feed nothing but the length
\* of the grace wait, so the arrival times are recorded by this step and
\* AudioAppend carries the rest of the handler.
ChunkTimed(interval) ==
    /\ Reading
    /\ ~LinkDown
    /\ chunk_receive_times' = IF last_audio_chunk_time = "None"
                              THEN chunk_receive_times
                              ELSE record_interval(chunk_receive_times, interval)
    /\ last_audio_chunk_time' = "set"
    /\ last' = [name |-> "audio.append.timed"]
    /\ out' = <<>>
    /\ UNCHANGED <<pc, is_active, welcome_triggered, turnVars, bufferVars, linkVars,
                   envVars, greeting, session_ready_sent, commit, messages_read,
                   ws_connected, ws_ready, message_queue>>
    /\ UNCHANGED <<voiceVars, context_tasks, teardown>>
    /\ UNCHANGED <<grace_period_s, instructionVars>>

\* _handle_audio_input.  payload: the "audio" field is "missing" (or empty),
\* "invalid" base64, or decodes to that many bytes
Payloads == {[kind |-> "missing", size |-> 0], [kind |-> "invalid", size |-> 0]}
            \cup {[kind |-> "bytes", size |-> n] : n \in ChunkSizes}

AudioAppend(payload) ==
    /\ Reading
    /\ messages_read' = TRUE
    /\ IF LinkDown
       THEN /\ SocketBecomes(SendToClient(Socket, Msg("error", "not_ready")))
            /\ last' = [name |-> "audio.append", result |-> "not_ready"]
            /\ UNCHANGED bufferVars
       ELSE IF payload.kind # "bytes"
       THEN /\ out' = <<>>
            /\ last' = [name |-> "audio.append", result |-> payload.kind]
            /\ UNCHANGED <<ws_connected, ws_ready, message_queue, bufferVars>>
       ELSE /\ audio_chunk_count < MaxChunks
            /\ audio_buffer_size' = audio_buffer_size + payload.size
            /\ audio_buffer_duration_ms' =
                   FloatAdd(audio_buffer_duration_ms, ChunkDuration(payload.size))
            /\ audio_chunk_count' = audio_chunk_count + 1
            \* send_audio, then the acknowledgment unless the send raised
            /\ IF SendEvent = "raised"
               THEN /\ out' = <<>>
                    /\ UNCHANGED <<ws_connected, ws_ready, message_queue>>
               ELSE SocketBecomes(SendToClient(Socket, Msg("audio.received", "")))
            /\ last' = [name |-> "audio.append", result |-> SendEvent]
    \* the observation of a commit that has returned ends with the next chunk
    /\ commit' = IF commit.phase = "upstream"
                 THEN [commit EXCEPT !.waited = FALSE, !.chunks = 0, !.bytes = 0]
                 ELSE NoCommit
    /\ UNCHANGED <<is_active, welcome_triggered, turnVars, linkVars, envVars, pc,
                   greeting, session_ready_sent>>
    /\ UNCHANGED <<voiceVars, context_tasks, teardown>>
    /\ UNCHANGED <<timingVars, instructionVars>>

\* _handle_audio_commit up to the grace wait: the connectivity guard, the
\* early check for an empty buffer, then asyncio.sleep(grace_period_s)
AudioCommit ==
    /\ Reading
    /\ messages_read' = TRUE
    /\ IF LinkDown
       THEN /\ SocketBecomes(SendToClient(Socket, Msg("error", "not_ready")))
            /\ commit' = [NoCommit EXCEPT !.phase = "closed", !.outcome = "not_ready",
                                          !.chunks = audio_chunk_count]
            /\ pc' = pc
       ELSE IF audio_chunk_count = 0 /\ audio_buffer_duration_ms = ZeroMs
       THEN LET s == SendToClient(Socket, Msg("response.done", "no_audio"))
            IN  /\ SocketBecomes(s)
                /\ commit' = [NoCommit EXCEPT !.phase = "closed", !.outcome = "no_audio",
                                  !.chunks = audio_chunk_count,
                                  !.dones = CountType(s.out, "response.done"),
                                  !.errors = CountType(s.out, "error")]
                /\ pc' = pc
       ELSE /\ out' = <<>>
            /\ commit' = [NoCommit EXCEPT !.phase = "grace", !.waited = TRUE,
                                          !.chunks = audio_chunk_count,
                                          !.enough = ~BelowMinimum(audio_buffer_duration_ms)]
            /\ pc' = "grace"
            /\ UNCHANGED <<ws_connected, ws_ready, message_queue>>
    /\ grace_period_s' = IF pc' = "grace" THEN grace_period(chunk_receive_times)
                                          ELSE grace_period_s
    /\ last' = [name |-> "audio.commit"]
    /\ UNCHANGED <<is_active, welcome_triggered, turnVars, bufferVars, linkVars,
                   envVars, greeting, session_ready_sent>>
    /\ UNCHANGED <<voiceVars, context_tasks, teardown>>
    /\ UNCHANGED <<chunk_receive_times, last_audio_chunk_time, instructionVars>>

\* _handle_audio_commit after the grace wait: the duration check, the
\* upstream commit and the reset.  buffer_text: whether the text of an
\* exception raised by the send names an empty or too small buffer.
CommitAfterGrace(buffer_text) ==
    /\ pc = "grace"
    /\ pc' = "loop"
    /\ ResetBuffer
    /\ IF BelowMinimum(audio_buffer_duration_ms)
       THEN LET s == SendToClient(Socket, Msg("response.done", "insufficient_audio"))
            IN  /\ SocketBecomes(s)
                /\ commit' = [commit EXCEPT !.phase = "closed",
                                  !.outcome = "insufficient_audio",
                                  !.bytes = audio_buffer_size, !.enough = FALSE,
                                  !.dones = CountType(s.out, "response.done"),
                                  !.errors = CountType(s.out, "error")]
                /\ UNCHANGED upstream_commit
       ELSE IF SendEvent = "sent"      \* commit_audio
       THEN /\ upstream_commit' = TRUE
            /\ out' = <<>>
            /\ commit' = [commit EXCEPT !.phase = "upstream", !.outcome = "committed",
                                        !.bytes = audio_buffer_size, !.enough = FALSE, !.calls = @ + 1]
            /\ UNCHANGED <<ws_connected, ws_ready, message_queue>>
       ELSE IF SendEvent = "dropped"
       THEN /\ out' = <<>>
            /\ commit' = [commit EXCEPT !.phase = "closed", !.outcome = "dropped",
                                        !.bytes = audio_buffer_size, !.enough = FALSE, !.calls = @ + 1]
            /\ UNCHANGED <<ws_connected, ws_ready, message_queue, upstream_commit>>
       ELSE LET s == IF buffer_text
                     THEN SendToClient(Socket, Msg("response.done", "openai_rejected"))
                     ELSE SendToClient(Socket, Msg("error", "processing"))
            IN  /\ SocketBecomes(s)
                /\ commit' = [commit EXCEPT !.phase = "closed",
                                  !.outcome = IF buffer_text THEN "openai_rejected"
                                              ELSE "failed",
                                  !.bytes = audio_buffer_size, !.enough = FALSE, !.calls = @ + 1,
                                  !.dones = CountType(s.out, "response.done"),
                                  !.errors = CountType(s.out, "error")]
                /\ UNCHANGED upstream_commit
    /\ last' = [name |-> "audio.commit.grace"]
    /\ UNCHANGED <<is_active, welcome_triggered, turnVars, openai_client,
                   is_connected, ws, receiving, envVars, greeting,
                   session_ready_sent, messages_read>>
    /\ UNCHANGED <<voiceVars, context_tasks, teardown>>
    /\ grace_period_s' = NoGrace
    /\ UNCHANGED <<chunk_receive_times, last_audio_chunk_time, instructionVars>>

\* valid_voices of _handle_voice_change
valid_voices ==
    {"alloy", "ash", "ballad", "coral", "echo", "sage", "shimmer", "verse",
     "marin", "cedar"}

\* a check that lets every voice through
IsValidVoice_Any(voice) == TRUE

\* new_voice not in valid_voices
IsValidVoice(voice) == voice \in valid_voices

\* voice.change requests: the voice field ("None" when absent) and the
\* skin_id field (0 when absent; 11 is no key of SKINS)
VoiceRequests == [voice : {"None", "echo", "robot"}, skin_id : {0, 1, 11}]

\* the first part of _handle_voice_change: the voice the request asks for,
\* or the error it is answered with
RequestedVoice(request) ==
    IF request.voice = "None" /\ request.skin_id = 0
    THEN [error |-> "missing", voice |-> "None"]
    ELSE IF request.skin_id # 0 /\ request.skin_id \notin DOMAIN SKINS
    THEN [error |-> "invalid_skin", voice |-> "None"]
    ELSE LET new_voice == IF request.skin_id # 0 THEN SKINS[request.skin_id]
                          ELSE request.voice
         IN  IF IsValidVoice(new_voice)
             THEN [error |-> "none", voice |-> new_voice]
             ELSE [error |-> "invalid_voice", voice |-> new_voice]

\* what storing the skin does: the row is updated and committed, no row is
\* found, the query or the commit raises and rollback() returns, or
\* rollback() raises as well
Persistence == {"stored", "no_row", "raises", "rollback_raises"}

\* _handle_voice_change
VoiceChange(request, persist) ==
    /\ Reading
    /\ messages_read' = TRUE
    /\ \E r \in {RequestedVoice(request)} :
        IF r.error # "none"
        THEN /\ SocketBecomes(SendToClient(Socket, Msg("error", r.error)))
             /\ last' = [name |-> "voice.change", request |-> request,
                         result |-> r.error, event |-> "none", persisted |-> FALSE]
             /\ UNCHANGED voiceVars
        ELSE IF LinkDown
        THEN /\ SocketBecomes(SendToClient(Socket, Msg("error", "not_ready")))
             /\ last' = [name |-> "voice.change", request |-> request,
                         result |-> "not_ready", event |-> "none", persisted |-> FALSE]
             /\ UNCHANGED voiceVars
        ELSE LET stores == request.skin_id # 0 /\ db
                 \* int(self.user_id) raises inside the inner try
                 stored == stores /\ user_id_valid /\ persist = "stored"
                 \* the outer except: the send raised, or rollback() did
                 failed == \/ SendEvent = "raised"
                           \/ stores /\ persist = "rollback_raises"
                 persisted == stored /\ SendEvent # "raised"
             IN  /\ user_voice' = r.voice
                 /\ upstream_voice' = IF SendEvent = "sent" THEN r.voice
                                      ELSE upstream_voice
                 /\ SocketBecomes(SendToClient(Socket,
                        IF failed THEN Msg("error", "voice_change_failed")
                        ELSE Msg("voice.changed", r.voice)))
                 /\ last' = [name |-> "voice.change", request |-> request,
                             result |-> IF failed THEN "failed" ELSE "changed",
                             event |-> SendEvent, persisted |-> persisted]
    /\ UNCHANGED <<is_active, welcome_triggered, turnVars, bufferVars, linkVars,
                   envVars, pc, commit, greeting, session_ready_sent>>
    /\ UNCHANGED <<context_tasks, teardown>>
    /\ UNCHANGED <<timingVars, instructionVars>>

\* what the retriever does for a query: it finds context, raises, times
\* out, reports an exhausted quota by returning no embedding, or raises
\* QuotaExceededError
Retrievers == {"found", "raises", "timeout", "quota_flag", "quota_exception"}

\* a retrieval that lets the retriever's exceptions through
retrieve_context_Propagating(retriever) ==
    [raised |-> retriever \in {"raises", "timeout", "quota_exception"},
     quota_exceeded |-> retriever = "quota_flag",
     error |-> FALSE]

\* RAGPipeline.retrieve_context, as prepare_context calls it: every
\* exception is caught and an empty context is returned, flagged
\* quota_exceeded or carrying the error text
retrieve_context(retriever) ==
    [raised |-> FALSE,
     quota_exceeded |-> retriever \in {"quota_flag", "quota_exception"},
     error |-> retriever \in {"raises", "timeout"}]

\* _handle_text_input up to its await of prepare_context.  has_text: the
\* message carries a non-empty text
TextInput(has_text) ==
    /\ Reading
    /\ messages_read' = TRUE
    /\ IF LinkDown
       THEN /\ SocketBecomes(SendToClient(Socket, Msg("error", "not_ready")))
            /\ last' = [name |-> "text.input", result |-> "not_ready"]
            /\ UNCHANGED pc
       ELSE IF ~has_text
       THEN /\ out' = <<>>
            /\ last' = [name |-> "text.input", result |-> "empty"]
            /\ UNCHANGED <<ws_connected, ws_ready, message_queue, pc>>
       ELSE /\ out' = <<>>
            /\ last' = [name |-> "text.input", result |-> "retrieving"]
            /\ pc' = "retrieve"
            /\ UNCHANGED <<ws_connected, ws_ready, message_queue>>
    /\ UNCHANGED <<is_active, welcome_triggered, turnVars, bufferVars, linkVars,
                   envVars, commit, greeting, session_ready_sent>>
    /\ UNCHANGED <<voiceVars, context_tasks, teardown>>
    /\ UNCHANGED <<timingVars, instructionVars>>

\* _handle_text_input after prepare_context: the session update with the
\* instructions and the voice, the text item, context.retrieved.  An
\* exception ends the handler in its except clause, which only logs.
TextInputRetrieved(retriever) ==
    /\ pc = "retrieve"
    /\ pc' = "loop"
    /\ \E context \in {retrieve_context(retriever)} :
        IF context.raised \/ SendEvent = "raised"
        THEN /\ out' = <<>>
             /\ last' = [name |-> "text.input.retrieved", retriever |-> retriever,
                         result |-> "raised"]
             /\ UNCHANGED <<ws_connected, ws_ready, message_queue, upstream_voice,
                            upstream_instructions>>
        ELSE /\ upstream_voice' = IF SendEvent = "sent" THEN user_voice
                                  ELSE upstream_voice
             \* prepare_context(system_instructions=...session.instructions)
             /\ upstream_instructions' = IF SendEvent = "sent" THEN session_instructions
                                         ELSE upstream_instructions
             /\ SocketBecomes(SendToClient(Socket, Msg("context.retrieved", "")))
             /\ last' = [name |-> "text.input.retrieved", retriever |-> retriever,
                         result |-> IF SendEvent = "sent" THEN "forwarded"
                                    ELSE "dropped"]
    /\ UNCHANGED <<is_active, welcome_triggered, turnVars, bufferVars, linkVars,
                   envVars, commit, greeting, session_ready_sent, messages_read>>
    /\ UNCHANGED <<user_voice, context_tasks, teardown>>
    /\ UNCHANGED <<timingVars, session_instructions>>

\* _refresh_context.  has_query: the message carries a non-empty query
ContextRefresh(has_query, retriever) ==
    /\ Reading
    /\ messages_read' = TRUE
    /\ \E context \in {retrieve_context(retriever)} :
        IF ~has_query \/ context.raised
        THEN /\ out' = <<>>
             /\ UNCHANGED <<ws_connected, ws_ready, message_queue>>
        ELSE SocketBecomes(SendToClient(Socket,
                 Msg("context.refreshed", IF context.error THEN "error" ELSE "")))
    /\ last' = [name |-> "context.refresh", has_query |-> has_query]
    /\ UNCHANGED <<is_active, welcome_triggered, turnVars, bufferVars, linkVars,
                   envVars, pc, commit, greeting, session_ready_sent>>
    /\ UNCHANGED <<voiceVars, context_tasks, teardown>>
    /\ UNCHANGED <<timingVars, instructionVars>>

\* session.end: the loop breaks and start() reaches its finally clause
SessionEnd ==
    /\ Reading
    /\ messages_read' = TRUE
    /\ pc' = "cleanup"
    /\ out' = <<>>
    /\ last' = [name |-> "session.end"]
    /\ UNCHANGED <<handlerVars, turnVars, bufferVars, linkVars, envVars, commit,
                   greeting, session_ready_sent>>
    /\ UNCHANGED <<voiceVars, context_tasks, teardown>>
    /\ UNCHANGED <<timingVars, instructionVars>>

\* a client text that selects no handler: not JSON at all, JSON that is not
\* an object, or an object whose type names no handler
ClientTexts == {"not_json", "not_an_object", "unknown_type"}

\* json.loads(message) and data.get("type") of the receive loop
Decode(text) ==
    CASE text = "not_json" -> "JSONDecodeError"
      [] text = "not_an_object" -> "AttributeError"
      [] OTHER -> "unknown"

\* the receive loop reads such a text.  An unknown type is logged and the
\* loop goes on; an exception of the decoding is re-raised by
\* _handle_messages, start() reports it to the client and cleans up
OtherMessage(text) ==
    /\ Reading
    /\ messages_read' = TRUE
    /\ IF Decode(text) = "unknown"
       THEN /\ out' = <<>>
            /\ UNCHANGED <<ws_connected, ws_ready, message_queue, pc>>
       ELSE /\ LET s == SendToClient(Socket, Msg("error", "session"))
               IN  SocketBecomes([s EXCEPT !.conn = FALSE])
            /\ pc' = "cleanup"
    /\ last' = [name |-> "other_message", text |-> text]
    /\ UNCHANGED <<is_active, current_user_message, current_assistant_response,
                   db_user_id, welcome_triggered, bufferVars, linkVars, envVars,
                   commit, greeting, session_ready_sent>>
    /\ UNCHANGED <<voiceVars, context_tasks, teardown>>
    /\ UNCHANGED <<timingVars, instructionVars>>

\* receive_text raises WebSocketDisconnect: the loop ends
ClientGone ==
    /\ pc = "loop"
    /\ ~clientUp
    /\ pc' = "cleanup"
    /\ out' = <<>>
    /\ last' = [name |-> "disconnect"]
    /\ UNCHANGED <<handlerVars, turnVars, bufferVars, linkVars, envVars, commit,
                   greeting, session_ready_sent, messages_read>>
    /\ UNCHANGED <<voiceVars, context_tasks, teardown>>
    /\ UNCHANGED <<timingVars, instructionVars>>

\* ------------------------------------------------------- upstream events
\* the receive task delivers an event to its callback while the socket is
\* open; the callbacks run one at a time
Delivering == receiving /\ ws = "open"

\* the peer closes the transport, with a normal close code or otherwise
UpstreamCloses(kind) ==
    /\ ws = "open"
    /\ ws' = kind
    /\ out' = <<>>
    /\ last' = [name |-> "upstream_close"]
    /\ UNCHANGED <<handlerVars, turnVars, bufferVars, openai_client, is_connected,
                   receiving, upstream_commit, envVars, pc, commit, greeting,
                   session_ready_sent, messages_read>>
    /\ UNCHANGED <<voiceVars, context_tasks, teardown>>
    /\ UNCHANGED <<timingVars, instructionVars>>

\* _message_handler leaves `async for message in self.ws`: a closure with an
\* error raises ConnectionClosed into the except clause, which clears
\* is_connected; a normal closure just ends the iteration
ReceiveLoopEnds ==
    /\ receiving
    /\ ws \in {"closed_ok", "closed_error"}
    /\ receiving' = FALSE
    /\ is_connected' = IF ws = "closed_error" THEN FALSE ELSE is_connected
    /\ upstream_commit' = FALSE
    /\ commit' = IF commit.phase = "upstream"
                 THEN [commit EXCEPT !.phase = "lost"] ELSE commit
    /\ out' = <<>>
    /\ last' = [name |-> "receive_loop_end"]
    /\ UNCHANGED <<handlerVars, turnVars, bufferVars, openai_client, ws, envVars, pc,
                   greeting, session_ready_sent, messages_read>>
    /\ UNCHANGED <<voiceVars, context_tasks, teardown>>
    /\ UNCHANGED <<timingVars, instructionVars>>

\* _handle_transcription(text, role): input transcription completed (user),
\* or an audio transcript delta (assistant)
UpTranscription(role, text) ==
    /\ Delivering
    /\ SocketBecomes(SendToClient(Socket, Msg("transcription", role)))
    /\ IF role = "user" /\ text # <<>>
       THEN /\ current_user_message' = text
            \* asyncio.create_task(self._update_context_async(text))
            /\ Len(context_tasks) < MaxTasks
            /\ context_tasks' = Append(context_tasks,
                                      [voice |-> user_voice, at |-> "made"])
            /\ UNCHANGED current_assistant_response
       ELSE IF role = "assistant" /\ text # <<>>
       THEN /\ Len(current_assistant_response) < MaxDeltas
            /\ current_assistant_response' = current_assistant_response \o text
            /\ UNCHANGED <<current_user_message, context_tasks>>
       ELSE UNCHANGED <<current_user_message, current_assistant_response,
                        context_tasks>>
    /\ last' = [name |-> "transcription", role |-> role]
    /\ UNCHANGED <<is_active, welcome_triggered, db_user_id, bufferVars, linkVars,
                   envVars, pc, commit, greeting, session_ready_sent, messages_read>>
    /\ UNCHANGED <<voiceVars, teardown>>
    /\ UNCHANGED <<timingVars, instructionVars>>

\* an update that sends the voice the session had when the task was made
UpdateVoice_AtSpawn(task) == task.voice

\* "voice": self.user_voice, read when the event is built
UpdateVoice(task) == user_voice

\* a call that reaches the link whatever has become of the client
UpstreamCall_Unguarded == "sent"

\* self.openai_client._send_event(...) in a task: the attribute access on a
\* released client raises, otherwise the outcome is that of _send_event
UpstreamCall == IF openai_client = "None" THEN "raised" ELSE SendEvent

\* a task of _update_context_async runs up to its await of prepare_context:
\* the arguments are built from self.openai_client.session, which raises
\* when the client has been released; the except clause only logs
UpdateContextBegins(i) ==
    /\ i \in 1..Len(context_tasks)
    /\ context_tasks[i].at = "made"
    /\ context_tasks' =
           IF openai_client = "None"
           THEN [j \in 1..(Len(context_tasks) - 1) |->
                    IF j < i THEN context_tasks[j] ELSE context_tasks[j + 1]]
           ELSE [context_tasks EXCEPT ![i].at = "retrieving"]
    /\ out' = <<>>
    /\ last' = [name |-> "context_update_begins",
                result |-> IF openai_client = "None" THEN "raised" ELSE "retrieving"]
    /\ UNCHANGED <<handlerVars, turnVars, bufferVars, linkVars, envVars, pc, commit,
                   greeting, session_ready_sent, messages_read>>
    /\ UNCHANGED <<voiceVars, teardown>>
    /\ UNCHANGED <<timingVars, instructionVars>>

\* a task of _update_context_async runs from where it is to its end:
\* prepare_context, the session update with the instructions and the voice,
\* then context.updated unless the quota flag is set.  Every exception, the
\* missing client after cleanup included, ends in an except clause that
\* only logs.
UpdateContext(i, retriever) ==
    /\ i \in 1..Len(context_tasks)
    /\ context_tasks' = [j \in 1..(Len(context_tasks) - 1) |->
                             IF j < i THEN context_tasks[j] ELSE context_tasks[j + 1]]
    /\ \E context \in {retrieve_context(retriever)} :
        IF context.raised \/ UpstreamCall = "raised"
        THEN /\ out' = <<>>
             /\ last' = [name |-> "context_update", retriever |-> retriever,
                         result |-> "raised", made_with |-> context_tasks[i].voice,
                         at |-> context_tasks[i].at]
             /\ UNCHANGED <<ws_connected, ws_ready, message_queue, upstream_voice,
                            upstream_instructions>>
        ELSE /\ upstream_voice' = IF UpstreamCall = "sent"
                                  THEN UpdateVoice(context_tasks[i])
                                  ELSE upstream_voice
             \* prepare_context(system_instructions=...session.instructions)
             /\ upstream_instructions' = IF UpstreamCall = "sent"
                                         THEN session_instructions
                                         ELSE upstream_instructions
             /\ IF context.quota_exceeded
                THEN /\ out' = <<>>
                     /\ UNCHANGED <<ws_connected, ws_ready, message_queue>>
                ELSE SocketBecomes(SendToClient(Socket, Msg("context.updated", "")))
             /\ last' = [name |-> "context_update", retriever |-> retriever,
                         result |-> UpstreamCall, made_with |-> context_tasks[i].voice,
                         at |-> context_tasks[i].at]
    /\ UNCHANGED <<is_active, welcome_triggered, turnVars, bufferVars, linkVars,
                   envVars, pc, commit, greeting, session_ready_sent, messages_read>>
    /\ UNCHANGED <<user_voice, teardown>>
    /\ UNCHANGED <<timingVars, session_instructions>>

\* assistant transcript deltas: empty, a letter
DeltaTexts == {<<>>, <<"b">>}

\* _handle_buffer_committed: input_audio_buffer.committed, by voice-activity
\* detection or after a manual commit
UpBufferCommitted ==
    /\ Delivering
    /\ ResetBuffer
    /\ out' = <<>>
    /\ last' = [name |-> "buffer_committed"]
    /\ UNCHANGED <<handlerVars, turnVars, linkVars, envVars, pc, commit, greeting,
                   session_ready_sent, messages_read>>
    /\ UNCHANGED <<voiceVars, context_tasks, teardown>>
    /\ UNCHANGED <<timingVars, instructionVars>>

\* an upstream error event: its code, and whether its message contains
\* "buffer too small" (in any letter case) or "0.00ms"
ErrorEvents == [code : {"input_audio_buffer_commit_empty", "other"},
                too_small : BOOLEAN, zero_ms : BOOLEAN]

\* the test without the "0.00ms" clause
IsBufferError_NoZeroMs(error) ==
    \/ error.code = "input_audio_buffer_commit_empty"
    \/ error.too_small

\* the test both _handle_error methods apply
IsBufferError(error) ==
    \/ error.code = "input_audio_buffer_commit_empty"
    \/ error.too_small
    \/ error.zero_ms

\* OpenAIRealtimeClient._handle_error: chooses the log level, then calls the
\* on_error callback whenever one is registered (start() registers one)
ClientHandleError(error) == [level |-> IF IsBufferError(error) THEN "info" ELSE "error",
                             callback |-> TRUE]

\* RealtimeStreamHandler._handle_error.  reply: the event answers the commit
\* the upstream holds
UpError(error, reply) ==
    /\ Delivering
    /\ reply => upstream_commit
    /\ LET s == IF ~ClientHandleError(error).callback THEN [Socket EXCEPT !.out = <<>>]
                ELSE IF IsBufferError(error)
                THEN SendToClient(Socket, Msg("response.done", "insufficient_audio"))
                ELSE SendToClient(Socket, Msg("error", "upstream"))
       IN  /\ SocketBecomes(s)
           /\ commit' = IF reply
                        THEN [commit EXCEPT !.phase = "closed",
                                 !.dones = @ + CountType(s.out, "response.done"),
                                 !.errors = @ + CountType(s.out, "error")]
                        ELSE commit
           /\ last' = [name |-> "upstream_error", error |-> error,
                       callback |-> ClientHandleError(error).callback]
    /\ upstream_commit' = IF reply THEN FALSE ELSE upstream_commit
    /\ UNCHANGED <<is_active, welcome_triggered, turnVars, bufferVars, openai_client,
                   is_connected, ws, receiving, envVars, pc, greeting,
                   session_ready_sent, messages_read>>
    /\ UNCHANGED <<voiceVars, context_tasks, teardown>>
    /\ UNCHANGED <<timingVars, instructionVars>>

\* _handle_response_complete, as a function of the turn and of what its
\* collaborators do:
\*   extract     _extract_and_update_user_info reports an applied update
\*   redis_ok    redis_client.add_voice_chat succeeds
\*   query       the user lookup: "raises", "missing" or "found"
\*   commit_ok   self.db.add / self.db.commit succeed
\*   rollback_ok self.db.rollback() in the except clause succeeds
Done(status) == Msg("response.done", status)

\* a completion that announces the end of every response, whether or not the
\* turn holds a user message
ResponseComplete_Announcing(user, assistant, extract, redis_ok, query, commit_ok, rollback_ok) ==
    [user |-> <<>>, assistant |-> <<>>, db_user_id |-> db_user_id,
     cache_appends |-> 0, db_inserts |-> 0,
     result |-> IF user = <<>> THEN "no_message" ELSE "completed",
     msgs |-> <<Done("completed")>>]

ResponseComplete(user, assistant, extract, redis_ok, query, commit_ok, rollback_ok) ==
    LET profile   == IF db /\ extract THEN <<Msg("profile.updated", "")>> ELSE <<>>
        cleaned_user_message == clean_chat_message(user)
        cleaned_assistant_response == clean_chat_message(assistant)
        appends   == IF redis_ok
                     THEN 1 + (IF cleaned_assistant_response # <<>> THEN 1 ELSE 0)
                     ELSE 0
        lookup    == db_user_id = "None"
        lookup_raises == lookup /\ (~user_id_valid \/ query = "raises")
        db_failed == lookup_raises \/ ~commit_ok
        kept      == [user |-> user, assistant |-> assistant, db_user_id |-> db_user_id,
                      cache_appends |-> 0, db_inserts |-> 0]
        reset     == [kept EXCEPT !.user = <<>>, !.assistant = <<>>]
    IN  IF user = <<>>
        THEN kept @@ [result |-> "no_message", msgs |-> <<>>]
        ELSE IF cleaned_user_message = <<>> \/ ~is_meaningful_text(user)
        THEN reset @@ [result |-> "not_meaningful", msgs |-> profile]
        ELSE IF ~db
        THEN [reset EXCEPT !.cache_appends = appends]
             @@ [result |-> "completed", msgs |-> profile \o <<Done("completed")>>]
        ELSE IF lookup /\ ~lookup_raises /\ query = "missing"
        THEN [reset EXCEPT !.cache_appends = appends]
             @@ [result |-> "user_missing", msgs |-> profile]
        ELSE IF db_failed /\ ~rollback_ok
        THEN [reset EXCEPT !.cache_appends = appends,
                           !.db_user_id = IF lookup_raises THEN db_user_id ELSE "id"]
             @@ [result |-> "error", msgs |-> profile \o <<Done("error")>>]
        ELSE [reset EXCEPT !.cache_appends = appends,
                           !.db_user_id = IF lookup_raises THEN db_user_id ELSE "id",
                           !.db_inserts = IF db_failed THEN 0 ELSE 1]
             @@ [result |-> "completed", msgs |-> profile \o <<Done("completed")>>]

\* _prepare_system_instructions for a profile with a name and an age: no
\* onboarding section
complete_profile_instructions == "plain"

\* the upstream response.done event.  reply: the response answers the commit
\* the upstream holds
UpResponseDone(reply, extract, redis_ok, query, commit_ok, rollback_ok) ==
    /\ Delivering
    /\ reply => upstream_commit
    /\ extract => (db /\ user_id_valid /\ query = "found")
    /\ \E r \in {ResponseComplete(current_user_message, current_assistant_response,
                                   extract, redis_ok, query, commit_ok, rollback_ok)} :
       \E s \in {SendAll(Socket, r.msgs)} :
           /\ SocketBecomes(s)
           /\ current_user_message' = r.user
           /\ current_assistant_response' = r.assistant
           /\ db_user_id' = r.db_user_id
           /\ commit' = IF reply
                        THEN [commit EXCEPT !.phase = "closed",
                                 !.dones = @ + CountType(s.out, "response.done"),
                                 !.errors = @ + CountType(s.out, "error")]
                        ELSE commit
           /\ last' = [name |-> "response_done",
                       result |-> r.result, cache_appends |-> r.cache_appends,
                       db_inserts |-> r.db_inserts]
    /\ upstream_commit' = IF reply THEN FALSE ELSE upstream_commit
    /\ UNCHANGED <<is_active, welcome_triggered, bufferVars, openai_client,
                   is_connected, ws, receiving, envVars, pc, greeting,
                   session_ready_sent, messages_read>>
    \* the applied update completes the profile: _extract_and_update_user_info
    \* sends a session update with new instructions and the voice
    /\ upstream_voice' = IF extract /\ current_user_message # <<>> /\ SendEvent = "sent"
                         THEN user_voice
                         ELSE upstream_voice
    \* ... and with the instructions _prepare_system_instructions builds for
    \* the completed profile
    /\ upstream_instructions' =
           IF extract /\ current_user_message # <<>> /\ SendEvent = "sent"
           THEN complete_profile_instructions
           ELSE upstream_instructions
    /\ UNCHANGED <<user_voice, context_tasks, teardown>>
    /\ UNCHANGED <<timingVars, session_instructions>>

Lookups == {"raises", "missing", "found"}

\* ------------------------------------------------------------- claims
\* the client can still be written to
ClientThere == ws_connected /\ ws_ready /\ clientUp

\* C1: every audio.commit handled while the upstream link is connected ends
\* with exactly one response.done delivered to the client for that commit,
\* never zero and never two, whether the handler closes the attempt itself
\* (no audio, insufficient audio, the send raising) or the upstream answers
\* it later (an error event, the end of the response).  Stated in the form
\* most favourable to the code: an error message is accepted in place of the
\* response.done, so that only a commit that ends with no terminal notice at
\* all, or with two response.done, violates it.
C1_ExactlyOneResponseDone ==
    (commit.phase = "closed" /\ commit.outcome # "not_ready" /\ ClientThere)
        => commit.dones <= 1 /\ commit.dones + commit.errors >= 1

\* C2: the admission decision equals the reference function of the counters:
\* no chunk recorded gives no_audio at once, without grace wait and without
\* upstream commit; otherwise, after the grace wait, fewer than 100 ms of
\* audio (bytes / 2 / 24000 * 1000) gives insufficient_audio and no upstream
\* commit call, and 100 ms or more gives exactly one upstream commit call.
C2_AdmissionDecision ==
    /\ (last.name = "audio.commit" /\ commit.outcome # "not_ready")
           => IF commit.chunks = 0
              THEN /\ commit.outcome = "no_audio"
                   /\ ~commit.waited
                   /\ commit.calls = 0
                   /\ pc # "grace"
              ELSE commit.phase = "grace" /\ pc = "grace" /\ commit.calls = 0
    /\ last.name = "audio.commit.grace"
           => /\ commit.waited
              /\ IF commit.bytes * 1000 < min_buffer_duration_ms * 2 * sample_rate
                 THEN commit.outcome = "insufficient_audio" /\ commit.calls = 0
                 ELSE commit.outcome # "insufficient_audio" /\ commit.calls = 1

\* C3: when the handling of an audio.commit returns (no audio, insufficient
\* audio, commit accepted, rejected or failed) the byte count, the duration
\* and the chunk count of the pending buffer are all zero, and no state shows
\* a buffer of which only a part was cleared.
C3_BufferClearedAfterCommit ==
    /\ (last.name \in {"audio.commit", "audio.commit.grace"} /\ pc # "grace"
        /\ commit.outcome # "not_ready")
           => /\ audio_buffer_size = 0
              /\ audio_buffer_duration_ms = ZeroMs
              /\ audio_chunk_count = 0
    /\ audio_chunk_count = 0 => audio_buffer_size = 0 /\ audio_buffer_duration_ms = ZeroMs
    /\ audio_buffer_size = 0 <=> audio_buffer_duration_ms = ZeroMs

C3_Witness ==
    /\ last.name = "audio.commit.grace"
    /\ commit.outcome = "committed"
    /\ commit.bytes > 0
    /\ audio_buffer_size = 0

\* C4: when the upstream reports the end of a response for a turn whose user
\* text is meaningful, the client is sent the turn-completion notice
\* response.done, whatever extraction, the cache or the database do.  Stated
\* in the form most favourable to the code: the status error of the
\* handler's fallback is accepted as well as completed, so that only a
\* suppressed notice violates it.
C4_CompletedAlwaysSent ==
    [][(last'.name = "response_done" /\ is_meaningful_text(current_user_message)
        /\ ws_connected')
          => Count(out', Done("completed")) + Count(out', Done("error")) = 1]_vars

\* C5: after every handling of the upstream end of a response both transcript
\* accumulators are empty, whatever the outcome of the handling.
C5_AccumulatorsEmptied ==
    last.name = "response_done"
        => current_user_message = <<>> /\ current_assistant_response = <<>>

\* C6: the welcome flag never returns from true to false, and at most one
\* greeting create_response is issued in a session.
C6_WelcomeAtMostOnce ==
    [][(welcome_triggered => welcome_triggered') /\ greeting'.calls <= 1]_vars

C6_Witness == welcome_triggered /\ greeting.calls = 1 /\ pc = "done"

\* C7: the greeting create_response is issued exactly once if and only if a
\* database handle is present, the user row exists, the user has no name, no
\* age and no gender, and the link is connected after the startup delay; it
\* is issued after session.ready and before a client message is read; in
\* every other case it is issued zero times, and the session reaches the
\* message loop either way.
C7_GreetingIffGuest ==
    /\ greeting.calls \in {0, 1}
    /\ ~greeting.checked => greeting.calls = 0
    /\ (greeting.checked /\ pc # "welcome_delay")
           => (greeting.calls = 1 <=> (greeting.eligible /\ greeting.connected))
    /\ greeting.calls = 1 => greeting.after_ready /\ greeting.before_read
    /\ last.name = "welcome_check" => pc \in {"welcome_delay", "loop"}
    /\ last.name = "welcome_trigger" => pc = "loop"

C7_Witness ==
    /\ greeting.calls = 1
    /\ greeting.eligible
    /\ last.name = "welcome_trigger"
    /\ pc = "loop"

\* the texts C8 names: empty after trimming, without an alphanumeric
\* character (only emoji or punctuation), or a repetition of a filler letter
NotMeaningful(t) ==
    \/ Strip(t) = <<>>
    \/ \A i \in 1..Len(t) : ~IsAlnum(t[i])
    \/ LET cleaned == Strip(RemoveEmojis(t))
       IN  Len(cleaned) >= 3 /\ \A i \in 1..Len(cleaned) : cleaned[i] = "a"

\* C8: the handling of the end of a response for a turn whose user text is
\* not meaningful appends nothing to the rolling cache and inserts no chat
\* record.
C8_NoiseNeverPersisted ==
    [][(last'.name = "response_done" /\ NotMeaningful(current_user_message))
          => last'.cache_appends = 0 /\ last'.db_inserts = 0]_vars

C8_Witness == last.name = "response_done" /\ last.result = "not_meaningful"

\* the signature of an empty or short buffer in an upstream error event
BufferSignature(error) ==
    \/ error.code = "input_audio_buffer_commit_empty"
    \/ error.too_small
    \/ error.zero_ms

\* C9: an upstream error event with the empty / short buffer signature is
\* passed to the session's error callback and becomes exactly one
\* response.done with status insufficient_audio and no error message; any
\* other upstream error event becomes exactly one error message and no
\* response.done.
C9_BufferErrorsDowngraded ==
    (last.name = "upstream_error" /\ ws_connected)
        => /\ last.callback
           /\ IF BufferSignature(last.error)
              THEN out = <<Done("insufficient_audio")>>
              ELSE Len(out) = 1 /\ out[1].type = "error"

C9_Witness ==
    /\ last.name = "upstream_error"
    /\ last.error = [code |-> "other", too_small |-> FALSE, zero_ms |-> TRUE]
    /\ out = <<Done("insufficient_audio")>>

\* C10: when the upstream connect raises or times out the client is sent an
\* error message, the session is never active, session.ready is never sent,
\* no client message is read and the main task goes to cleanup; session.ready
\* is sent only by the step that follows a successful connect and marks the
\* session active.
C10_ConnectFailureFatal ==
    /\ [](/\ last.name = "connect_fail"
                => /\ pc = "cleanup"
                   /\ last.client_ok => CountType(out, "error") >= 1
          /\ ~session_ready_sent => ~is_active /\ ~messages_read
          /\ session_ready_sent => pc \notin {"start", "handshake", "connect"})
    /\ [][/\ pc \in {"cleanup", "done"} => pc' \in {"cleanup", "done"}
          /\ (~session_ready_sent /\ session_ready_sent')
                => last'.name = "connect_ok" /\ is_active'
          /\ (pc = "cleanup" /\ pc' = "done") => last'.name = "cleanup"]_vars

C10_Witness ==
    /\ last.name = "connect_fail"
    /\ last.kind = "timeout"
    /\ last.client_ok
    /\ CountType(out, "error") >= 1
    /\ pc = "cleanup"

C12_BadMessageIgnored ==
    [][last'.name = "other_message"
        => /\ pc' = "loop"
           /\ is_active'
           /\ UNCHANGED <<bufferVars, user_voice, current_user_message,
                          current_assistant_response>>]_vars

\* C13: an outbound operation of the upstream link fails visibly when the
\* link is not connected.  commit_audio, called by the commit handler after
\* its grace wait while the link has no transport or is marked disconnected,
\* signals the caller: the handler ends in its failure branch, never as if
\* the commit event had been sent.
C13_NotConnectedSignalled ==
    [][(/\ pc = "grace" /\ pc' = "loop"
        /\ ~BelowMinimum(audio_buffer_duration_ms)
        /\ (ws = "None" \/ ~is_connected))
        => commit'.outcome \in {"openai_rejected", "failed"}]_vars

\* C14: when the upstream transport closes, for an error or normally, the
\* receive loop ends and the link is marked disconnected, and nothing
\* reconnects it: once the loop has left a closed transport, is_connected is
\* false, so every later handler's guard sees the link as down.
C14_ClosureMarksDisconnected ==
    (ws \in {"closed_ok", "closed_error"} /\ ~receiving) => ~is_connected

\* the handlers of the five client messages
HandlerNames == {"audio.append", "audio.commit", "text.input", "context.refresh",
                 "voice.change"}

\* C15: each client-message handler checks the upstream link first.  A
\* message handled while the link is absent or not connected is answered
\* with a notice to the client (when the client can be written to), and the
\* buffer counters, the voices and the accumulators stay as they were; no
\* input is dropped silently.  (A context.refresh without a query carries no
\* input and is left out.)
C15_GuardFirst ==
    [][(/\ Reading /\ LinkDown /\ ClientThere
        /\ last'.name \in HandlerNames
        /\ last'.name = "context.refresh" => last'.has_query)
        => /\ CountType(out', "error") >= 1
           /\ UNCHANGED <<bufferVars, voiceVars, turnVars>>]_vars

\* a voice.change that names no voice and no skin, an unknown skin, or a
\* voice outside the allowed set
InvalidRequest(request) ==
    \/ request.voice = "None" /\ request.skin_id = 0
    \/ request.skin_id # 0 /\ request.skin_id \notin DOMAIN SKINS
    \/ request.skin_id # 0 /\ request.skin_id \in DOMAIN SKINS
          /\ SKINS[request.skin_id] \notin valid_voices
    \/ request.skin_id = 0 /\ request.voice \notin valid_voices

\* the voice a valid request asks for
WantedVoice(request) ==
    IF request.skin_id # 0 THEN SKINS[request.skin_id] ELSE request.voice

\* C16: an invalid voice.change is answered with an error and mutates
\* nothing: the selected voice and the voice pushed upstream are unchanged,
\* no event is sent upstream, no preference is stored, and the client gets
\* one error and no voice.changed.
C16_InvalidVoiceRejected ==
    [][(Reading /\ last'.name = "voice.change" /\ InvalidRequest(last'.request))
        => /\ UNCHANGED voiceVars
           /\ last'.event = "none"
           /\ ~last'.persisted
           /\ CountType(out', "voice.changed") = 0
           /\ ClientThere => CountType(out', "error") = 1]_vars

\* the request for the voice "robot" was answered with an error on a
\* connected link
C16_Witness ==
    /\ last.name = "voice.change"
    /\ last.request = [voice |-> "robot", skin_id |-> 0]
    /\ last.result = "invalid_voice"
    /\ ~LinkDown /\ ws = "open"
    /\ CountType(out, "error") = 1
    /\ user_voice = "shimmer"

\* C17: a valid voice.change on a connected link takes effect whether or
\* not the preference can be stored: the selected voice and the voice pushed
\* upstream become the new voice, voice.changed is sent to the client and no
\* error is.
C17_ChangeIndependentOfPersistence ==
    [][(/\ Reading /\ last'.name = "voice.change"
        /\ ~InvalidRequest(last'.request)
        /\ ~LinkDown /\ ws = "open" /\ ClientThere)
        => /\ user_voice' = WantedVoice(last'.request)
           /\ upstream_voice' = WantedVoice(last'.request)
           /\ CountType(out', "voice.changed") = 1
           /\ CountType(out', "error") = 0]_vars

\* C18: every session update that carries instructions carries the selected
\* voice of the moment it is sent, so on an open link the voice last pushed
\* upstream is the selected voice after any interleaving of voice changes,
\* text inputs and context-update tasks.
C18_VoiceReasserted ==
    /\ []((ws = "open" /\ is_connected) => upstream_voice = user_voice)
    /\ [][(\/ last'.name = "text.input.retrieved" /\ last'.result = "forwarded"
           \/ last'.name = "context_update" /\ last'.result = "sent")
            => upstream_voice' = user_voice']_vars

\* a task made while the voice was shimmer sent its update after the voice
\* had been changed to echo
C18_Witness ==
    /\ last.name = "context_update"
    /\ last.result = "sent"
    /\ last.made_with = "shimmer"
    /\ user_voice = "echo"
    /\ upstream_voice = "echo"

\* the retriever's failures
FailingRetrievers == {"raises", "timeout", "quota_flag", "quota_exception"}

\* C19: a failing retrieval is never surfaced.  The text input whose
\* retrieval failed sends the client no error, leaves the session active and
\* the loop running, and on a usable link forwards the session update and
\* the text as it would have otherwise; the context-update task of a
\* transcript sends no error and leaves the session and the turn as they
\* were.
C19_ContextFailureSilent ==
    [][/\ (last'.name = "text.input.retrieved" /\ last'.retriever \in FailingRetrievers)
          => /\ CountType(out', "error") = 0
             /\ is_active' = is_active
             /\ pc' = "loop"
             /\ (ws = "open" /\ ~LinkDown) => last'.result = "forwarded"
       /\ (last'.name = "context_update" /\ last'.retriever \in FailingRetrievers)
          => /\ CountType(out', "error") = 0
             /\ UNCHANGED <<is_active, pc, turnVars>>]_vars

\* a text input whose retrieval raised QuotaExceededError was forwarded
C19_Witness ==
    /\ last.name = "text.input.retrieved"
    /\ last.retriever = "quota_exception"
    /\ last.result = "forwarded"
    /\ is_active
    /\ upstream_voice = user_voice
    /\ CountType(out, "context.retrieved") = 1
    /\ CountType(out, "error") = 0

\* C20: the messages queued before readiness is confirmed are sent in their
\* original order, each once, when readiness is confirmed, and the queue is
\* empty from then on: nothing is appended to it or sent from it again, and
\* a message for a lost socket is dropped.
C20_QueueFlushedOnce ==
    /\ [](pc # "handshake" => message_queue = <<>>)
    /\ [][(pc = "handshake" /\ pc' # "handshake" /\ clientUp)
            => /\ Len(out') = Len(message_queue) + 1
               /\ \A i \in 1..Len(message_queue) : out'[i] = message_queue[i]
               /\ out'[Len(out')].type = "session.connecting"]_vars
    /\ [][(pc # "handshake" /\ last'.name = "send")
            => /\ out' \in {<<>>, <<last'.message>>}
               /\ (out' = <<>>) <=> ~ClientThere]_vars

\* two different messages queued during the handshake were sent in their
\* order, followed by session.connecting
C20_Witness ==
    /\ last.name = "handshake_ready"
    /\ last.queued = 2
    /\ out = <<Msg("note", "x"), Msg("note", "y"),
               Msg("session.connecting", "initializing")>>
    /\ message_queue = <<>>

\* C21: the grace period computed for an audio.commit lies within
\* [150 ms, 500 ms]: with at least one recorded interval it is
\* max(2 * mean interval, max interval) clamped to that range, whatever the
\* samples, and with no recorded interval it is 200 ms
C21_GraceClamped ==
    pc = "grace" =>
        LET n == Len(chunk_receive_times)
            wanted == IF 2 * SumOf(chunk_receive_times) >= MaxOf(chunk_receive_times) * n
                      THEN 2 * SumOf(chunk_receive_times)
                      ELSE MaxOf(chunk_receive_times) * n
            clamped == IF wanted < 150 * n THEN 150 * n
                       ELSE IF wanted > 500 * n THEN 500 * n ELSE wanted
        IN  /\ 150 * grace_period_s.den <= grace_period_s.num
            /\ grace_period_s.num <= 500 * grace_period_s.den
            /\ n = 0 => grace_period_s = [num |-> 200, den |-> 1]
            /\ n > 0 => grace_period_s.num * n = grace_period_s.den * clamped

\* a commit waits with a burst and a stall among the recorded intervals, and
\* the wait is the upper end of the range
C21_Witness ==
    /\ pc = "grace"
    /\ \E i, j \in 1..Len(chunk_receive_times) :
           chunk_receive_times[i] = 0 /\ chunk_receive_times[j] = 1000
    /\ grace_period_s = [num |-> 500, den |-> 1]

\* C22: a text.input accepted while the upstream link is connected starts a
\* turn like a transcribed one: the typed text is the turn's user message,
\* and the upstream response-done that follows it is turned into a
\* response.done for the client
C22_TypedTurnAnswered ==
    [][/\ (last'.name = "text.input.retrieved" /\ last'.result = "forwarded")
              => current_user_message' # <<>>
       /\ (/\ last.name = "text.input.retrieved" /\ last.result = "forwarded"
           /\ last'.name = "response_done" /\ ClientThere)
              => CountType(out', "response.done") = 1]_vars

\* C23: an upstream response-done handled while the turn's user message is
\* empty sends the client nothing: no response.done, no other message, and
\* nothing is queued for it
C23_EmptyTurnSilent ==
    [][(last'.name = "response_done" /\ current_user_message = <<>>)
          => /\ out' = <<>>
             /\ message_queue' = message_queue
             /\ last'.result = "no_message"]_vars

\* a response-done was handled with no user message while the client could
\* be written to
C23_Witness ==
    /\ last.name = "response_done"
    /\ last.result = "no_message"
    /\ current_user_message = <<>>
    /\ ClientThere

\* C25: a context task still in flight when the session is torn down cannot
\* act on the closed session: once cleanup has completed, whatever point the
\* task had reached, its steps send no event upstream, send or queue no
\* message for the client, and end in the task's own except clause
C25_TaskInertAfterCleanup ==
    [][(/\ teardown.cleanups >= 1
        /\ last'.name \in {"context_update_begins", "context_update"})
          => /\ last'.result \in {"raised", "dropped"}
             /\ out' = <<>>
             /\ message_queue' = message_queue
             /\ upstream_voice' = upstream_voice
             /\ UNCHANGED <<openai_client, is_connected, ws, ws_connected>>]_vars

\* a task that was waiting for its retrieval when cleanup ran has ended
C25_Witness ==
    /\ teardown.cleanups >= 1
    /\ pc = "done"
    /\ last.name = "context_update"
    /\ last.at = "retrieving"
    /\ last.retriever = "found"
    /\ context_tasks = <<>>

\* a context retrieval is pending: the one awaited for a text.input, or the
\* task made for a transcript
RetrievalPending == pc = "retrieve" \/ context_tasks # <<>>

\* C24: context refresh is fire-and-forget relative to the client receive
\* loop, for a typed text.input as for an upstream transcript: while a
\* retrieval is pending and the client is there, the loop of an active
\* session keeps reading client messages, none waits for the retrieval
C24_RefreshDetached ==
    (RetrievalPending /\ pc \in {"loop", "retrieve"} /\ is_active /\ clientUp)
        => Reading

\* C26: the grace wait of an audio.commit absorbs the chunks in flight: while
\* the commit waits, an audio.append that reaches the server is handled, so
\* that its bytes are in the buffer the commit checks after the wait
C26_GraceAbsorbsChunks ==
    (pc = "grace" /\ is_active /\ clientUp /\ ~LinkDown)
        => ENABLED AudioAppend([kind |-> "bytes", size |-> 256])

\* C27: upstream callbacks do not race with the admission of a commit: a
\* buffer that held at least 100 ms when the audio.commit was requested is not
\* reported as insufficient_audio after the grace wait, whatever upstream
\* event was handled during the wait
C27_CommitOutcomeStable ==
    [][(pc = "grace" /\ pc' = "loop" /\ commit.enough)
          => commit'.outcome # "insufficient_audio"]_vars

\* C28: the admission counters never count audio that was not forwarded: the
\* handling of an audio.append whose chunk was not sent to the upstream link
\* (the send raised, the link was down, the payload was unusable) leaves the
\* byte count, the duration and the chunk count as they were and sends no
\* audio.received
C28_CountersMatchForwarded ==
    [][(last'.name = "audio.append" /\ last'.result # "sent")
          => /\ UNCHANGED bufferVars
             /\ CountType(out', "audio.received") = 0]_vars

\* C30: a voice.change that is answered with an error (invalid voice, unknown
\* skin, link not connected, the session update raising) leaves the selected
\* voice as it was: the voice differs from its previous value only when the
\* handler reaches voice.changed
C30_ErrorKeepsVoice ==
    [][(/\ last'.name = "voice.change"
        /\ last'.result # "changed"
        /\ last'.result = "failed" => last'.event = "raised")
          => user_voice' = user_voice]_vars

\* C29: the instructions pushed for a completed profile are not regressed:
\* once they are the instructions the upstream holds, no session update of a
\* text.input or of a transcript's context refresh replaces them by
\* instructions built from the startup text with its onboarding section
C29_InstructionsNotRegressed ==
    [][(/\ upstream_instructions = "plain"
        /\ last'.name \in {"text.input.retrieved", "context_update"})
          => upstream_instructions' # "onboarding"]_vars

\* ------------------------------------------------------- specifications
\* the session from construction to the end of cleanup
ClientMessage ==
    \/ \E payload \in Payloads : AudioAppend(payload)
    \/ AudioCommit
    \/ \E buffer_text \in BOOLEAN : CommitAfterGrace(buffer_text)
    \/ SessionEnd
    \/ ClientGone

Closing ==
    \/ Cleanup
    \/ ClientDrop
    \/ \E kind \in {"closed_ok", "closed_error"} : UpstreamCloses(kind)
    \/ ReceiveLoopEnds

Next ==
    \/ StartAccept
    \/ HandshakeReady
    \/ ConnectSucceed
    \/ \E kind \in ConnectFailKinds, opened \in BOOLEAN : ConnectFail(kind, opened)
    \/ \E query \in QueryResults : WelcomeCheck(query)
    \/ WelcomeTrigger
    \/ ClientMessage
    \/ Closing
    \/ CleanupAgain
    \/ \E text \in ClientTexts : OtherMessage(text)
    \/ \E error \in ErrorEvents : UpError(error, FALSE)

Spec == Init /\ [][Next]_vars

\* a session that has started: connected upstream, session.ready sent, the
\* guest check done without a greeting, the receive loop about to read
InitActive ==
    /\ is_active = TRUE
    /\ ws_connected = TRUE
    /\ ws_ready = TRUE
    /\ message_queue = <<>>
    /\ current_user_message = <<>>
    /\ current_assistant_response = <<>>
    /\ db_user_id = "None"
    /\ audio_buffer_size = 0
    /\ audio_buffer_duration_ms = ZeroMs
    /\ audio_chunk_count = 0
    /\ welcome_triggered = FALSE
    /\ openai_client = "client"
    /\ is_connected = TRUE
    /\ ws = "open"
    /\ receiving = TRUE
    /\ upstream_commit = FALSE
    /\ db \in BOOLEAN
    /\ user_id_valid \in BOOLEAN
    /\ clientUp = TRUE
    /\ pc = "loop"
    /\ out = <<>>
    /\ last = [name |-> "welcome_check"]
    /\ commit = NoCommit
    /\ greeting = [NoGreeting EXCEPT !.checked = TRUE]
    /\ session_ready_sent = TRUE
    /\ messages_read = FALSE
    /\ user_voice = "shimmer"
    /\ upstream_voice = "shimmer"
    /\ context_tasks = <<>>
    /\ teardown = [NoTeardown EXCEPT !.created = TRUE]
    /\ chunk_receive_times = <<>>
    /\ last_audio_chunk_time = "None"
    /\ grace_period_s = NoGrace
    /\ session_instructions \in IF db /\ user_id_valid THEN {"onboarding", "plain"}
                                                      ELSE {"onboarding"}
    /\ upstream_instructions = session_instructions

\* the audio path of a started session: client audio messages against the
\* upstream events
\* the context-update task made by a user transcript writes only the voice
\* pushed upstream and the client socket; in SpecAudio and SpecTurn it runs
\* before the next step, SpecVoice explores its interleavings
TaskRuns == \E i \in 1..Len(context_tasks) : UpdateContext(i, "found")

NextAudio ==
    \/ context_tasks = <<>> /\ ClientMessage
    \/ context_tasks = <<>> /\ Closing
    \/ context_tasks = <<>> /\ UpBufferCommitted
    \/ context_tasks = <<>> /\ \E error \in ErrorEvents, reply \in BOOLEAN :
                                    UpError(error, reply)
    \/ context_tasks = <<>> /\ \E text \in SampleTexts : UpTranscription("user", text)
    \/ TaskRuns
    \/ context_tasks = <<>>
          /\ \E redis_ok, commit_ok, rollback_ok \in BOOLEAN, query \in Lookups :
                UpResponseDone(TRUE, FALSE, redis_ok, query, commit_ok, rollback_ok)

SpecAudio == InitActive /\ [][NextAudio]_vars

\* the turns of a started session: transcripts and response completion.
\* Every transcript is explored as the first of its turn; one that replaces
\* an unprocessed transcript leaves the same fields behind.
NextTurn ==
    \/ current_user_message = <<>> /\ context_tasks = <<>>
          /\ \E text \in Texts : UpTranscription("user", text)
    \/ context_tasks = <<>> /\ \E text \in DeltaTexts : UpTranscription("assistant", text)
    \/ TaskRuns
    \/ context_tasks = <<>>
          /\ \E extract, redis_ok, commit_ok, rollback_ok \in BOOLEAN, query \in Lookups :
                UpResponseDone(FALSE, extract, redis_ok, query, commit_ok, rollback_ok)
    \/ context_tasks = <<>> /\ ClientDrop

SpecTurn == InitActive /\ [][NextTurn]_vars

\* a started session: the voice, text and context messages of the client,
\* the context-update tasks made by user transcripts, and the end of the
\* link and of the session
NextVoice ==
    \/ \E request \in VoiceRequests, persist \in Persistence :
           VoiceChange(request, persist)
    \/ \E has_text \in BOOLEAN : TextInput(has_text)
    \/ \E retriever \in Retrievers : TextInputRetrieved(retriever)
    \/ \E has_query \in BOOLEAN, retriever \in Retrievers :
           ContextRefresh(has_query, retriever)
    \/ \E text \in SampleTexts : UpTranscription("user", text)
    \/ \E i \in 1..Len(context_tasks) : UpdateContextBegins(i)
    \/ \E i \in 1..Len(context_tasks), retriever \in Retrievers :
           UpdateContext(i, retriever)
    \/ \E redis_ok \in BOOLEAN :
           UpResponseDone(FALSE, TRUE, redis_ok, "found", TRUE, TRUE)
    \/ SessionEnd
    \/ ClientGone
    \/ Closing

SpecVoice == InitActive /\ [][NextVoice]_vars

\* a started session whose link goes down: every client message handler
NextGuard ==
    \/ ClientMessage
    \/ \E request \in VoiceRequests, persist \in Persistence :
           VoiceChange(request, persist)
    \/ \E has_text \in BOOLEAN : TextInput(has_text)
    \/ TextInputRetrieved("found")
    \/ \E has_query \in BOOLEAN : ContextRefresh(has_query, "found")
    \/ Closing

SpecGuard == InitActive /\ [][NextGuard]_vars

\* the start of a session with messages produced for the client around the
\* handshake
NextQueue ==
    \/ StartAccept
    \/ \E message \in QueueMessages : ProduceMessage(message)
    \/ HandshakeReady
    \/ ClientDrop
    \/ \E kind \in ConnectFailKinds : ConnectFail(kind, FALSE)
    \/ Cleanup

SpecQueue == Init /\ [][NextQueue]_vars

\* the arrival times of a started session and the grace wait computed from
\* them: the intervals of the window are recorded first, then one chunk is
\* buffered and committed
InitGrace == InitActive /\ db /\ user_id_valid /\ session_instructions = "plain"

NextGrace ==
    \/ audio_chunk_count = 0 /\ commit.phase = "idle"
          /\ \E interval \in Intervals : ChunkTimed(interval)
    \/ audio_chunk_count = 0 /\ commit.phase = "idle"
          /\ AudioAppend([kind |-> "bytes", size |-> 4544])
    \/ AudioCommit
    \/ CommitAfterGrace(FALSE)

SpecGrace == InitGrace /\ [][NextGrace]_vars

====
